---- MODULE Spec2Model ----
(***************************************************************************)
(* Model of the embeddable chat widget (src/src/ChatBot.js): the start-up  *)
(* sequence (API-key validation, initial configuration load), the polling  *)
(* configuration refresh (timer, visibility, focus and manual triggers),   *)
(* the change detection and the application of a new configuration to the  *)
(* live widget, the chat request/reply cycle and the teardown.             *)
(***************************************************************************)
EXTENDS Integers, Sequences, FiniteSets, TLC

\* ---------------------------------------------------------------------------
\* Bounds
\* ---------------------------------------------------------------------------

\* number of configuration polls issued in one run
MaxPolls == 2

\* number of chat messages the user sends in one run
MaxMessages == 1

\* ---------------------------------------------------------------------------
\* Values
\* ---------------------------------------------------------------------------

\* JavaScript null / undefined for a string-valued field
None == "none"

DefaultPosition == "bottom-right"
DefaultTitle == "ChatFlow AI Assistant"
DefaultPlaceholder == "Ask me anything about this website..."
InvalidKeyPlaceholder == "Invalid API key - chatbot disabled"
NoSitesPlaceholder == "No websites available for chat"

\* a colour string: an optional leading '#' followed by hexadecimal digits
Hex(d) == [hash |-> TRUE, digits |-> d]

\* a character of a colour string is a hexadecimal digit, by its value, or 'N'
CharN == 16

\* what parseInt gives for text that does not start with a digit
NaN == -1

HexChar == <<"0", "1", "2", "3", "4", "5", "6", "7",
             "8", "9", "a", "b", "c", "d", "e", "f", "N">>

\* the characters of a colour string, as JSON.stringify writes them
ColorText(c) ==
    <<"\"">> \o (IF c.hash THEN <<"#">> ELSE <<>>)
             \o [i \in 1..Len(c.digits) |-> HexChar[c.digits[i] + 1]]
             \o <<"\"">>

\* #ff6600
Orange == Hex(<<15, 15, 6, 6, 0, 0>>)
\* #2e8b57
SeaGreen == Hex(<<2, 14, 8, 11, 5, 7>>)
\* #1a365d
Navy == Hex(<<1, 10, 3, 6, 5, 13>>)

\* ---------------------------------------------------------------------------
\* RemoteConfig: the data member of a successful /sdk-config envelope
\* ---------------------------------------------------------------------------

NoWebsite == [present |-> FALSE, id |-> None]
Site(i) == [present |-> TRUE, id |-> i]

MissingList == [present |-> FALSE, items |-> <<>>]
List(l) == [present |-> TRUE, items |-> l]

NoCustomizations ==
    [present |-> FALSE, position |-> None, title |-> None, placeholder |-> None]
Customize(p, t, h) ==
    [present |-> TRUE, position |-> p, title |-> t, placeholder |-> h]

NoIntegration ==
    [present |-> FALSE, themeChoice |-> None, customizations |-> NoCustomizations]
Integration(t, k) == [present |-> TRUE, themeChoice |-> t, customizations |-> k]

\* themeData: absent, or an object whose colors member (when it has one) is
\* a list of role/colour entries in insertion order
NoThemeData == [present |-> FALSE, hasColors |-> FALSE, colors |-> <<>>]
EmptyTheme == [present |-> TRUE, hasColors |-> FALSE, colors |-> <<>>]
Theme(cs) == [present |-> TRUE, hasColors |-> TRUE, colors |-> cs]

Theme1 == Theme(<< <<"primary", Orange>> >>)
Theme2 == Theme(<< <<"primary", SeaGreen>>, <<"secondary", Navy>> >>)
Theme2Reordered == Theme(<< <<"secondary", Navy>>, <<"primary", SeaGreen>> >>)

Config(w, l, i, t) ==
    [selectedWebsite |-> w, availableWebsites |-> l, integration |-> i, themeData |-> t]

\* this.sdkConfig before any configuration was stored (undefined)
NoConfig == [unset |-> TRUE]

Websites == {NoWebsite, Site("a"), Site("b")}
AvailLists == {MissingList, List(<<>>), List(<<"b">>)}
CustomizationSets ==
    {NoCustomizations,
     Customize("bottom-left", "Help", None),
     Customize(None, None, "Type here")}
Integrations ==
    {NoIntegration} \cup
    {Integration(t, k) : t \in {"default", "website"}, k \in CustomizationSets}
ThemeDatas == {NoThemeData, EmptyTheme, Theme1, Theme2, Theme2Reordered}

\* every configuration the bounded value sets build
AllConfigs ==
    {Config(w, l, i, t) : w \in Websites, l \in AvailLists,
                          i \in Integrations, t \in ThemeDatas}

\* the configurations the backend serves during a run
Configs ==
    {Config(NoWebsite, List(<<>>), Integration("default", NoCustomizations), NoThemeData),
     Config(NoWebsite, List(<<"b">>), Integration("default", NoCustomizations), NoThemeData),
     Config(Site("a"), List(<<"a">>), Integration("default", NoCustomizations), NoThemeData),
     Config(Site("a"), List(<<"a">>),
            Integration("default", Customize("bottom-left", "Help", None)), NoThemeData),
     Config(Site("b"), List(<<"b">>),
            Integration("default", Customize(None, None, "Type here")), NoThemeData),
     Config(Site("a"), List(<<"a">>), Integration("website", NoCustomizations), Theme1),
     Config(Site("a"), List(<<"a">>), Integration("website", NoCustomizations), Theme2),
     Config(Site("a"), List(<<"a">>), Integration("website", NoCustomizations), NoThemeData),
     Config(Site("a"), List(<<"a">>), NoIntegration, NoThemeData),
     Config(NoWebsite, MissingList, Integration("default", NoCustomizations), NoThemeData)}

\* what a request to the backend can end in
Rejected == [kind |-> "reject", data |-> NoConfig]
BadJson == [kind |-> "badjson", data |-> NoConfig]
Failure == [kind |-> "failure", data |-> NoConfig]
Ok(c) == [kind |-> "ok", data |-> c]
NoResponse == [kind |-> "none", data |-> NoConfig]

Responses == {Rejected, BadJson, Failure} \cup {Ok(c) : c \in Configs}

\* ---------------------------------------------------------------------------
\* State
\* ---------------------------------------------------------------------------

VARIABLES
    bot,          \* the ChatBot instance, its widget and the injected style sheet
    pc,           \* where init() stands: validating, loading, ready, keyError
    nextReq,      \* number of configuration polls issued so far
    inflight,     \* ids of the polls whose response has not arrived
    sent,         \* number of chat messages sent so far
    chatInflight, \* chat requests whose reply has not arrived
    baselineFrom, \* which request stored the baseline: 0 none, -1 the load, n poll n
    lastEvent     \* the handler that completed last, with what it received

vars == <<bot, pc, nextReq, inflight, sent, chatInflight, baselineFrom, lastEvent>>

NoEvent ==
    [op |-> "none", id |-> 0, resp |-> NoResponse, changed |-> FALSE,
     threw |-> FALSE, rejected |-> FALSE, over |-> 0]

\* ---------------------------------------------------------------------------
\* Theme
\* ---------------------------------------------------------------------------

\* the empty string (also stands for a role the extracted colors do not have)
NoColor == [hash |-> FALSE, digits |-> <<>>]

\* String.prototype.substr(start, length) on the characters after the '#'
substr(d, start, length) ==
    IF start >= Len(d) THEN <<>>
    ELSE SubSeq(d, start + 1, IF start + length < Len(d) THEN start + length ELSE Len(d))

RECURSIVE PrefixValue(_, _)
PrefixValue(d, acc) ==
    IF d = <<>> \/ d[1] = CharN THEN acc
    ELSE PrefixValue(Tail(d), 16 * acc + d[1])

\* parseInt(text, 16): the value of the longest hexadecimal prefix, NaN when
\* there is none
parseInt16(d) == IF d = <<>> \/ d[1] = CharN THEN NaN ELSE PrefixValue(d, 0)

\* n.toString(16).padStart(2, '0') for a channel value
toHex2(n) ==
    IF n = NaN THEN <<CharN, 10, CharN>>
    ELSE IF n < 16 THEN <<0, n>>
    ELSE <<n \div 16, n % 16>>

Red(c) == parseInt16(substr(c.digits, 0, 2))
Green(c) == parseInt16(substr(c.digits, 2, 2))
Blue(c) == parseInt16(substr(c.digits, 4, 2))

HasNaN(c) == Red(c) = NaN \/ Green(c) = NaN \/ Blue(c) = NaN

\* Math.round(x / 100) for an integer x: halves round up (the percentages the
\* widget uses, 20, 60, 75, -15 and -8, give no product that doubles round
\* to the other side of a half)
RoundDiv100(x) == (x + 50) \div 100

\* variant: the channel is truncated instead of rounded
darkenChannelTruncates(v, percent) ==
    IF v = NaN THEN NaN ELSE (v * (100 - percent)) \div 100

darkenChannel(v, percent) ==
    IF v = NaN THEN NaN ELSE RoundDiv100(v * (100 - percent))

darkenColor(color, percent) ==
    IF ~color.hash THEN color
    ELSE Hex(toHex2(darkenChannel(Red(color), percent))
             \o toHex2(darkenChannel(Green(color), percent))
             \o toHex2(darkenChannel(Blue(color), percent)))

\* variant: the percentage is taken of 255 instead of the distance to 255
lightenChannelOfFullRange(v, percent) ==
    IF v = NaN THEN NaN ELSE RoundDiv100(100 * v + 255 * percent)

lightenChannel(v, percent) ==
    IF v = NaN THEN NaN ELSE RoundDiv100(100 * v + (255 - v) * percent)

lightenColor(color, percent) ==
    IF ~color.hash THEN color
    ELSE Hex(toHex2(lightenChannel(Red(color), percent))
             \o toHex2(lightenChannel(Green(color), percent))
             \o toHex2(lightenChannel(Blue(color), percent)))

\* variant: the channel is not clamped
clampNothing(v) == v

\* R < 255 ? (R < 1 ? 0 : R) : 255
clamp(v) == IF v < 255 THEN (IF v < 1 THEN 0 ELSE v) ELSE 255

\* a colour string has at most seven characters after the '#', so the parsed
\* number is below 2^31 and >> and & act on the number itself; NaN >> 16 and
\* NaN & 255 are 0
adjustColorBrightness(hex, percent) ==
    IF ~hex.hash THEN hex
    ELSE LET p == parseInt16(hex.digits)
             num == IF p = NaN THEN 0 ELSE p
             amt == RoundDiv100(255 * percent)
             R == (num \div 65536) + amt
             G == ((num \div 256) % 256) + amt
             B == (num % 256) + amt
         IN Hex(toHex2(clamp(R)) \o toHex2(clamp(G)) \o toHex2(clamp(B)))

isLightColor(color) ==
    IF color = NoColor THEN TRUE
    ELSE IF color.hash
    THEN IF HasNaN(color) THEN FALSE
         ELSE Red(color) * 299 + Green(color) * 587 + Blue(color) * 114 > 155 * 1000
    ELSE TRUE

isDarkColor(color) == ~isLightColor(color)

\* variant: a distance of exactly 100 counts as too similar
isColorTooSimilarInclusive(color1, color2) ==
    IF color1 = NoColor \/ color2 = NoColor \/ ~color1.hash \/ ~color2.hash THEN FALSE
    ELSE IF HasNaN(color1) \/ HasNaN(color2) THEN FALSE
    ELSE (Red(color2) - Red(color1)) * (Red(color2) - Red(color1))
         + (Green(color2) - Green(color1)) * (Green(color2) - Green(color1))
         + (Blue(color2) - Blue(color1)) * (Blue(color2) - Blue(color1)) <= 100 * 100

isColorTooSimilar(color1, color2) ==
    IF color1 = NoColor \/ color2 = NoColor \/ ~color1.hash \/ ~color2.hash THEN FALSE
    ELSE IF HasNaN(color1) \/ HasNaN(color2) THEN FALSE
    ELSE (Red(color2) - Red(color1)) * (Red(color2) - Red(color1))
         + (Green(color2) - Green(color1)) * (Green(color2) - Green(color1))
         + (Blue(color2) - Blue(color1)) * (Blue(color2) - Blue(color1)) < 100 * 100

\* colours of luminance exactly 0.9 or 0.1 for which the double-precision
\* sum (0.299 r + 0.587 g + 0.114 b) / 255 comes out above 0.9, below 0.1
RoundsAboveNineTenths == {<<196, 242, 253>>, <<248, 226, 199>>}
RoundsBelowOneTenth == {<<3, 39, 15>>, <<18, 30, 22>>, <<74, 4, 9>>}

\* luminance = (0.299 r + 0.587 g + 0.114 b) / 255 > 0.9
isColorTooLight(color) ==
    IF Len(color.digits) # 6 \/ HasNaN(color) THEN FALSE
    ELSE \/ 10 * (299 * Red(color) + 587 * Green(color) + 114 * Blue(color)) > 9 * 255 * 1000
         \/ <<Red(color), Green(color), Blue(color)>> \in RoundsAboveNineTenths

\* luminance < 0.1
isColorTooDark(color) ==
    IF Len(color.digits) # 6 \/ HasNaN(color) THEN FALSE
    ELSE \/ 10 * (299 * Red(color) + 587 * Green(color) + 114 * Blue(color)) < 255 * 1000
         \/ <<Red(color), Green(color), Blue(color)>> \in RoundsBelowOneTenth

Max3(a, b, c) == IF a >= b /\ a >= c THEN a ELSE IF b >= c THEN b ELSE c
Min3(a, b, c) == IF a <= b /\ a <= c THEN a ELSE IF b <= c THEN b ELSE c

\* saturation = (max - min) / max > 0.15, 0 when max is 0
hasGoodSaturation(color) ==
    IF Len(color.digits) # 6 \/ HasNaN(color) THEN FALSE
    ELSE LET max == Max3(Red(color), Green(color), Blue(color))
             min == Min3(Red(color), Green(color), Blue(color))
         IN IF max = 0 THEN FALSE ELSE 100 * (max - min) > 15 * max

\* the entries of genericColors that are a '#' followed by hexadecimal digits
genericColors ==
    {Hex(<<15, 15, 15, 15, 15, 15>>), Hex(<<15, 15, 15>>),
     Hex(<<0, 0, 0, 0, 0, 0>>), Hex(<<0, 0, 0>>),
     Hex(<<3, 3, 3, 3, 3, 3>>), Hex(<<3, 3, 3>>),
     Hex(<<6, 6, 6, 6, 6, 6>>), Hex(<<6, 6, 6>>),
     Hex(<<9, 9, 9, 9, 9, 9>>), Hex(<<9, 9, 9>>),
     Hex(<<12, 12, 12, 12, 12, 12>>), Hex(<<12, 12, 12>>),
     Hex(<<15, 0, 15, 0, 15, 0>>), Hex(<<15, 5, 15, 5, 15, 5>>),
     Hex(<<15, 10, 15, 10, 15, 10>>),
     Hex(<<0, 0, 7, 11, 15, 15>>), Hex(<<0, 0, 5, 6, 11, 3>>),
     Hex(<<0, 13, 6, 14, 15, 13>>),
     Hex(<<13, 12, 3, 5, 4, 5>>), Hex(<<2, 8, 10, 7, 4, 5>>),
     Hex(<<15, 15, 12, 1, 0, 7>>),
     Hex(<<1, 7, 10, 2, 11, 8>>), Hex(<<6, 12, 7, 5, 7, 13>>),
     Hex(<<3, 4, 3, 10, 4, 0>>),
     Hex(<<6, 6, 7, 14, 14, 10>>), Hex(<<7, 6, 4, 11, 10, 2>>)}

\* variant: the saturation of the colour is not looked at
isWebsiteSpecificColorAnySaturation(color) ==
    IF color = NoColor THEN FALSE
    ELSE IF color \in genericColors THEN FALSE
    ELSE IF isColorTooLight(color) \/ isColorTooDark(color) THEN FALSE
    ELSE Len(color.digits) = 6 /\ ~HasNaN(color)

isWebsiteSpecificColor(color) ==
    IF color = NoColor THEN FALSE
    ELSE IF color \in genericColors THEN FALSE
    ELSE IF isColorTooLight(color) \/ isColorTooDark(color) THEN FALSE
    ELSE hasGoodSaturation(color)

\* #ffffff
White == Hex(<<15, 15, 15, 15, 15, 15>>)
\* #2d3748
DarkText == Hex(<<2, 13, 3, 7, 4, 8>>)

getContrastingTextColor(backgroundColor) ==
    IF isLightColor(backgroundColor) THEN White ELSE DarkText

\* the colour a role has in the extracted colors, NoColor when it has none
Role(colors, role) ==
    IF \E i \in 1..Len(colors) : colors[i][1] = role
    THEN colors[CHOOSE i \in 1..Len(colors) :
                    colors[i][1] = role /\ \A j \in (i + 1)..Len(colors) : colors[j][1] # role][2]
    ELSE NoColor

\* a || b on colour strings
OrElse(a, b) == IF a # NoColor THEN a ELSE b

botBackground(primary, secondary) ==
    IF secondary # NoColor /\ secondary # primary THEN lightenColor(secondary, 60)
    ELSE IF primary # NoColor THEN lightenColor(primary, 75)
    ELSE Hex(<<15, 1, 15, 3, 15, 5>>)

generateBotBackgroundColor(colors) ==
    botBackground(Role(colors, "primary"), Role(colors, "secondary"))

\* the text colour after the background/text check of ensureAccessibleColors
accessibleText(background, text) ==
    IF isLightColor(background) /\ isLightColor(text) THEN DarkText
    ELSE IF isDarkColor(background) /\ isDarkColor(text) THEN Hex(<<15, 7, 15, 10, 15, 12>>)
    ELSE text

\* the bot background after the botBg/text check, text being the checked text
accessibleBotBg(botBg, text) ==
    IF isLightColor(botBg) /\ isLightColor(text) THEN Hex(<<15, 8, 15, 9, 15, 10>>)
    ELSE IF isDarkColor(botBg) /\ isDarkColor(text) THEN Hex(<<14, 2, 14, 8, 15, 0>>)
    ELSE botBg

\* variant: a primary too similar to the background is darkened instead of
\* being replaced by a fixed blue
accessiblePrimaryDarkens(primary, background) ==
    IF isColorTooSimilar(primary, background) THEN darkenColor(primary, 20)
    ELSE primary

\* the primary colour after the primary/background similarity check
accessiblePrimary(primary, background) ==
    IF isColorTooSimilar(primary, background)
    THEN (IF isLightColor(background)
          THEN Hex(<<4, 2, 9, 9, 14, 1>>) ELSE Hex(<<6, 3, 11, 3, 14, 13>>))
    ELSE primary

ensureAccessibleColors(colors) ==
    [colors EXCEPT
        !.text = accessibleText(colors.background, colors.text),
        !.botBg = accessibleBotBg(colors.botBg,
                                  accessibleText(colors.background, colors.text)),
        !.primary = accessiblePrimary(colors.primary, colors.background)]

\* a CSS value that is not a colour string
Css(text) == [css |-> text]

getDefaultThemeColors ==
    [primary |-> Hex(<<6, 6, 7, 14, 14, 10>>),
     primaryDark |-> Hex(<<7, 6, 4, 11, 10, 2>>),
     primaryLight |-> Hex(<<7, 12, 8, 11, 15, 0>>),
     secondary |-> Hex(<<15, 0, 9, 3, 15, 11>>),
     background |-> Hex(<<15, 8, 15, 9, 15, 10>>),
     text |-> DarkText,
     border |-> Hex(<<14, 2, 14, 8, 15, 0>>),
     button |-> Hex(<<6, 6, 7, 14, 14, 10>>),
     link |-> Hex(<<6, 6, 7, 14, 14, 10>>),
     accent |-> Hex(<<7, 6, 4, 11, 10, 2>>),
     userBg |-> Css("linear-gradient(135deg, #667eea 0%, #764ba2 100%)"),
     botBg |-> White,
     headerBg |-> Hex(<<6, 6, 7, 14, 14, 10>>),
     headerText |-> White]

\* the palette built from extracted colors whose primary was accepted
websitePalette(colors, primary, background) ==
    [primary |-> primary,
     primaryDark |-> darkenColor(primary, 20),
     primaryLight |-> lightenColor(primary, 20),
     secondary |-> OrElse(Role(colors, "secondary"), adjustColorBrightness(primary, -15)),
     background |-> background,
     text |-> OrElse(Role(colors, "text"), getContrastingTextColor(background)),
     border |-> OrElse(Role(colors, "border"), adjustColorBrightness(background, -8)),
     button |-> OrElse(Role(colors, "button"), primary),
     link |-> OrElse(Role(colors, "link"), primary),
     accent |-> OrElse(Role(colors, "accent"), primary),
     userBg |-> primary,
     botBg |-> generateBotBackgroundColor(colors),
     headerBg |-> primary,
     headerText |-> getContrastingTextColor(primary)]

\* the palette getThemeColors derives from an extracted theme that has colors
themePalette(theme) ==
    IF ~isWebsiteSpecificColor(Role(theme.colors, "primary"))
    THEN getDefaultThemeColors
    ELSE ensureAccessibleColors(
             websitePalette(theme.colors,
                            Role(theme.colors, "primary"),
                            OrElse(Role(theme.colors, "background"), White)))

\* themePalette on the themes of the bounded value sets, computed once
Palettes == {<<t, themePalette(t)>> : t \in {d \in ThemeDatas : d.hasColors}}

\* the tabulated palette of a theme of the bounded value sets, the computed
\* one of any other theme
PaletteOf(theme) ==
    IF theme \in ThemeDatas THEN (CHOOSE p \in Palettes : p[1] = theme)[2]
    ELSE themePalette(theme)

getThemeColors(s) ==
    IF s.options.themeStyle = "website" /\ s.websiteTheme.present /\ s.websiteTheme.hasColors
    THEN PaletteOf(s.websiteTheme)
    ELSE getDefaultThemeColors

\* the custom properties of the injected style sheet; every role of a palette
\* is a non-empty string, so none of the || fallbacks in the template applies
createStyles(s) == [s EXCEPT !.styleSheet = getThemeColors(s)]

\* ---------------------------------------------------------------------------
\* Widget operations
\* ---------------------------------------------------------------------------

createChatWidget(s) ==
    [s EXCEPT !.widget =
        [attached |-> TRUE,
         className |-> s.options.position,
         titleText |-> s.options.title,
         websiteLink |-> None,
         messages |-> "greeting",
         inputDisabled |-> TRUE,
         sendDisabled |-> TRUE,
         inputPlaceholder |-> s.options.placeholder]]

showApiKeyError(s) ==
    [s EXCEPT !.widget.messages = "invalidKey",
              !.widget.inputDisabled = TRUE,
              !.widget.sendDisabled = TRUE,
              !.widget.inputPlaceholder = InvalidKeyPlaceholder]

enableInput(s) ==
    [s EXCEPT !.widget.inputDisabled = FALSE,
              !.widget.sendDisabled = FALSE,
              !.widget.inputPlaceholder =
                  IF s.options.placeholder # None THEN s.options.placeholder
                  ELSE DefaultPlaceholder]

\* variant: the welcome message is shown but the history is kept
clearChatKeepsHistory(s) ==
    [s EXCEPT !.widget.messages =
                  IF s.currentFileId # None THEN "welcomeSelected" ELSE "welcomeSelect"]

clearChat(s) ==
    [s EXCEPT !.widget.messages =
                  IF s.currentFileId # None THEN "welcomeSelected" ELSE "welcomeSelect",
              !.chatHistory = <<>>]

updateChatHeader(s, site) == [s EXCEPT !.widget.websiteLink = site]

\* variant: the no-sites message also empties the history
showNoSitesMessageClearsHistory(s) ==
    [s EXCEPT !.widget.messages = "noSites",
              !.widget.inputDisabled = TRUE,
              !.widget.inputPlaceholder = NoSitesPlaceholder,
              !.widget.sendDisabled = TRUE,
              !.chatHistory = <<>>]

showNoSitesMessage(s) ==
    [s EXCEPT !.widget.messages = "noSites",
              !.widget.inputDisabled = TRUE,
              !.widget.inputPlaceholder = NoSitesPlaceholder,
              !.widget.sendDisabled = TRUE]

addMessage(s, text, sender) ==
    [s EXCEPT !.chatHistory = Append(@, [text |-> text, sender |-> sender])]

destroy(s) ==
    [s EXCEPT !.configRefreshInterval = FALSE, !.widget.attached = FALSE]

\* ---------------------------------------------------------------------------
\* Change detection
\* ---------------------------------------------------------------------------

\* selectedWebsite?.id
WebsiteId(c) == IF c.selectedWebsite.present THEN c.selectedWebsite.id ELSE None

\* integration?.themeChoice
ThemeChoice(c) == IF c.integration.present THEN c.integration.themeChoice ELSE None

RECURSIVE Entries(_)
Entries(cs) ==
    IF cs = <<>> THEN <<>>
    ELSE <<"\"" , cs[1][1], "\"", ":">> \o ColorText(cs[1][2])
         \o (IF Len(cs) > 1 THEN <<",">> ELSE <<>>) \o Entries(Tail(cs))

\* JSON.stringify(themeData || {})
JSONstringify(t) ==
    IF ~t.present \/ ~t.hasColors THEN <<"{", "}">>
    ELSE <<"{", "\"", "colors", "\"", ":", "{">> \o Entries(t.colors) \o <<"}", "}">>

\* variant: the themeData comparison is not restricted to the 'website' choice
hasConfigurationChangedAnyThemeData(s, newConfig) ==
    IF s.sdkConfig = NoConfig THEN TRUE
    ELSE IF WebsiteId(s.sdkConfig) # WebsiteId(newConfig) THEN TRUE
    ELSE IF ThemeChoice(s.sdkConfig) # ThemeChoice(newConfig) THEN TRUE
    ELSE IF JSONstringify(s.sdkConfig.themeData) # JSONstringify(newConfig.themeData)
         THEN TRUE
    ELSE FALSE

\* variant: a missing baseline is not treated as a change
hasConfigurationChangedNoFirst(s, newConfig) ==
    IF s.sdkConfig = NoConfig THEN FALSE
    ELSE IF WebsiteId(s.sdkConfig) # WebsiteId(newConfig) THEN TRUE
    ELSE IF ThemeChoice(s.sdkConfig) # ThemeChoice(newConfig) THEN TRUE
    ELSE IF ThemeChoice(newConfig) = "website"
            /\ JSONstringify(s.sdkConfig.themeData) # JSONstringify(newConfig.themeData)
         THEN TRUE
    ELSE FALSE

\* variant: a difference in the customizations also counts as a change
hasConfigurationChangedComparesCustomizations(s, newConfig) ==
    IF s.sdkConfig = NoConfig THEN TRUE
    ELSE IF WebsiteId(s.sdkConfig) # WebsiteId(newConfig) THEN TRUE
    ELSE IF ThemeChoice(s.sdkConfig) # ThemeChoice(newConfig) THEN TRUE
    ELSE IF s.sdkConfig.integration.customizations # newConfig.integration.customizations
         THEN TRUE
    ELSE IF ThemeChoice(newConfig) = "website"
            /\ JSONstringify(s.sdkConfig.themeData) # JSONstringify(newConfig.themeData)
         THEN TRUE
    ELSE FALSE

hasConfigurationChanged(s, newConfig) ==
    IF s.sdkConfig = NoConfig THEN TRUE
    ELSE IF WebsiteId(s.sdkConfig) # WebsiteId(newConfig) THEN TRUE
    ELSE IF ThemeChoice(s.sdkConfig) # ThemeChoice(newConfig) THEN TRUE
    ELSE IF ThemeChoice(newConfig) = "website"
            /\ JSONstringify(s.sdkConfig.themeData) # JSONstringify(newConfig.themeData)
         THEN TRUE
    ELSE FALSE

\* ---------------------------------------------------------------------------
\* Applying a configuration
\* ---------------------------------------------------------------------------

\* variant: the 'website' choice alone selects the website style
applyThemeIgnoresThemeData(s, newConfig) ==
    IF newConfig.integration.themeChoice = "website"
    THEN [s EXCEPT !.options.themeStyle = "website", !.websiteTheme = newConfig.themeData]
    ELSE [s EXCEPT !.options.themeStyle = "default", !.websiteTheme = NoThemeData]

\* the "Update theme settings" block of applyNewConfiguration
applyTheme(s, newConfig) ==
    IF newConfig.integration.themeChoice = "website" /\ newConfig.themeData.present
    THEN [s EXCEPT !.options.themeStyle = "website", !.websiteTheme = newConfig.themeData]
    ELSE [s EXCEPT !.options.themeStyle = "default", !.websiteTheme = NoThemeData]

\* the three customization blocks of applyNewConfiguration
applyCustomizations(s, newConfig) ==
    LET k == newConfig.integration.customizations
        s1 == IF k.present /\ k.position # None /\ k.position # s.options.position
              THEN [s EXCEPT !.options.position = k.position,
                             !.widget.className = k.position]
              ELSE s
        s2 == IF k.present /\ k.title # None /\ k.title # s1.options.title
              THEN [s1 EXCEPT !.options.title = k.title, !.widget.titleText = k.title]
              ELSE s1
        s3 == IF k.present /\ k.placeholder # None /\ k.placeholder # s2.options.placeholder
              THEN [s2 EXCEPT !.options.placeholder = k.placeholder,
                              !.widget.inputPlaceholder =
                                  IF ~s2.widget.inputDisabled THEN k.placeholder ELSE @]
              ELSE s2
    IN s3

\* variant: without a selected website the first available one is not used
selectWebsiteNoFirstAvailable(s, config) ==
    IF config.selectedWebsite.present
    THEN [st |-> updateChatHeader(
                     clearChat(enableInput(
                         [s EXCEPT !.currentFileId = config.selectedWebsite.id])),
                     config.selectedWebsite.id),
          threw |-> FALSE]
    ELSE IF ~config.availableWebsites.present
    THEN [st |-> s, threw |-> TRUE]
    ELSE [st |-> showNoSitesMessage(s), threw |-> FALSE]

\* the site selection shared by applyNewConfiguration and loadSdkConfiguration;
\* reading .length of a missing availableWebsites throws
selectWebsite(s, config) ==
    IF config.selectedWebsite.present
    THEN [st |-> updateChatHeader(
                     clearChat(enableInput(
                         [s EXCEPT !.currentFileId = config.selectedWebsite.id])),
                     config.selectedWebsite.id),
          threw |-> FALSE]
    ELSE IF ~config.availableWebsites.present
    THEN [st |-> s, threw |-> TRUE]
    ELSE IF Len(config.availableWebsites.items) > 0
    THEN [st |-> updateChatHeader(
                     clearChat(enableInput(
                         [s EXCEPT !.currentFileId = config.availableWebsites.items[1]])),
                     config.availableWebsites.items[1]),
          threw |-> FALSE]
    ELSE [st |-> showNoSitesMessage(s), threw |-> FALSE]

\* the end of applyNewConfiguration: the styles are re-applied unless the
\* site selection threw
restyle(sel) ==
    IF sel.threw THEN sel ELSE [st |-> createStyles(sel.st), threw |-> FALSE]

\* variant: the baseline is stored after the widget was updated, so a throw
\* leaves the old baseline
applyNewConfigurationStoresLast(s, newConfig) ==
    IF ~newConfig.integration.present
    THEN [st |-> s, threw |-> TRUE]
    ELSE LET sel == selectWebsite(
                        applyTheme(applyCustomizations(s, newConfig), newConfig),
                        newConfig)
         IN IF sel.threw THEN sel
            ELSE [st |-> createStyles([sel.st EXCEPT !.sdkConfig = newConfig]),
                  threw |-> FALSE]

\* applyNewConfiguration(newConfig): the state it leaves and whether it threw;
\* reading .customizations of a missing integration throws
applyNewConfiguration(s, newConfig) ==
    IF ~newConfig.integration.present
    THEN [st |-> [s EXCEPT !.sdkConfig = newConfig], threw |-> TRUE]
    ELSE restyle(
             selectWebsite(
                 applyTheme(applyCustomizations([s EXCEPT !.sdkConfig = newConfig],
                                                newConfig),
                            newConfig),
                 newConfig))

\* the three "Set ... from API integration settings" blocks of loadSdkConfiguration
loadCustomizations(s, config) ==
    LET k == config.integration.customizations
        s1 == IF k.present /\ k.position # None
              THEN [s EXCEPT !.options.position = k.position] ELSE s
        s2 == IF k.present /\ k.title # None
              THEN [s1 EXCEPT !.options.title = k.title] ELSE s1
        s3 == IF k.present /\ k.placeholder # None
              THEN [s2 EXCEPT !.options.placeholder = k.placeholder] ELSE s2
    IN s3

\* the "Set theme based on API configuration" block of loadSdkConfiguration
loadTheme(s, config) ==
    IF config.integration.themeChoice = "website" /\ config.themeData.present
    THEN [s EXCEPT !.options.themeStyle = "website", !.websiteTheme = config.themeData]
    ELSE [s EXCEPT !.options.themeStyle = "default"]

\* the end of loadSdkConfiguration: the styles are applied, or the catch block
\* runs when the site selection threw
restyleOrNoSites(sel) ==
    IF sel.threw THEN [st |-> showNoSitesMessage(sel.st), threw |-> TRUE]
    ELSE [st |-> createStyles(sel.st), threw |-> FALSE]

\* loadSdkConfiguration once its response has arrived; whatever is thrown is
\* caught and ends in showNoSitesMessage
loadSdkConfiguration(s, resp) ==
    IF resp.kind # "ok"
    THEN [st |-> showNoSitesMessage(s), threw |-> resp.kind \in {"reject", "badjson"}]
    ELSE IF ~resp.data.integration.present
    THEN [st |-> showNoSitesMessage([s EXCEPT !.sdkConfig = resp.data]), threw |-> TRUE]
    ELSE restyleOrNoSites(
             selectWebsite(
                 loadTheme(loadCustomizations([s EXCEPT !.sdkConfig = resp.data],
                                              resp.data),
                           resp.data),
                 resp.data))

\* what refreshConfiguration leaves after the apply a (a throw is caught)
applied(a) == [st |-> a.st, changed |-> TRUE, threw |-> a.threw, rejected |-> FALSE]

\* variant: a failed poll ends in showNoSitesMessage, as a failed load does
refreshConfigurationFailureShowsNoSites(s, resp) ==
    IF resp.kind # "ok"
    THEN [st |-> showNoSitesMessage(s), changed |-> FALSE, threw |-> FALSE,
          rejected |-> FALSE]
    ELSE IF hasConfigurationChanged(s, resp.data)
    THEN applied(applyNewConfiguration(s, resp.data))
    ELSE [st |-> s, changed |-> FALSE, threw |-> FALSE, rejected |-> FALSE]

\* variant: every successful response is applied, without the comparison
refreshConfigurationAlwaysApplies(s, resp) ==
    IF resp.kind # "ok"
    THEN [st |-> s, changed |-> FALSE, threw |-> FALSE, rejected |-> FALSE]
    ELSE applied(applyNewConfiguration(s, resp.data))

\* refreshConfiguration once its response has arrived: the state it leaves,
\* whether a change was detected, whether the apply threw, and whether the
\* promise it returned rejects (everything is inside its try/catch)
refreshConfiguration(s, resp) ==
    IF resp.kind # "ok"
    THEN [st |-> s, changed |-> FALSE, threw |-> FALSE, rejected |-> FALSE]
    ELSE IF hasConfigurationChanged(s, resp.data)
    THEN applied(applyNewConfiguration(s, resp.data))
    ELSE [st |-> s, changed |-> FALSE, threw |-> FALSE, rejected |-> FALSE]

\* ---------------------------------------------------------------------------
\* Construction
\* ---------------------------------------------------------------------------

\* the fields the constructor sets before it calls init()
Fields ==
    [sdkConfig |-> NoConfig,
     options |-> [position |-> DefaultPosition, title |-> DefaultTitle,
                  placeholder |-> DefaultPlaceholder, themeStyle |-> "auto"],
     websiteTheme |-> NoThemeData,
     currentFileId |-> None,
     chatHistory |-> <<>>,
     configRefreshInterval |-> FALSE,
     widget |-> [attached |-> FALSE, className |-> None, titleText |-> None,
                 websiteLink |-> None, messages |-> None, inputDisabled |-> TRUE,
                 sendDisabled |-> TRUE, inputPlaceholder |-> None],
     styleSheet |-> getDefaultThemeColors]

\* setInterval(..., 2000); the two listeners it adds are never removed
setupConfigRefresh(s) == [s EXCEPT !.configRefreshInterval = TRUE]

\* new ChatBot(apiKey): init() runs up to its first await (the validation
\* request is sent), then the refresh is set up
Constructed == setupConfigRefresh(createChatWidget(createStyles(Fields)))

Init ==
    /\ bot = Constructed
    /\ pc = "validating"
    /\ nextReq = 0
    /\ inflight = {}
    /\ sent = 0
    /\ chatInflight = {}
    /\ baselineFrom = 0
    /\ lastEvent = NoEvent

\* ---------------------------------------------------------------------------
\* init(): validation and initial load
\* ---------------------------------------------------------------------------

\* validateApiKey() resolves: true on a success envelope, false on a failure
\* envelope or when the request or its parsing fails
ValidateApiKeyDone ==
    /\ pc = "validating"
    /\ \E isValidKey \in BOOLEAN :
          IF isValidKey
          THEN pc' = "loading" /\ bot' = bot
          ELSE pc' = "keyError" /\ bot' = showApiKeyError(bot)
    /\ UNCHANGED <<nextReq, inflight, sent, chatInflight, baselineFrom, lastEvent>>

\* the load ended in res on the response resp
Loaded(resp, res) ==
    /\ bot' = res.st
    /\ baselineFrom' = IF resp.kind = "ok" THEN -1 ELSE baselineFrom
    /\ lastEvent' = [op |-> "load", id |-> 0, resp |-> resp, changed |-> FALSE,
                     threw |-> res.threw, rejected |-> FALSE, over |-> baselineFrom]

LoadSdkConfigurationDone ==
    /\ pc = "loading"
    /\ \E resp \in Responses : Loaded(resp, loadSdkConfiguration(bot, resp))
    /\ pc' = "ready"
    /\ UNCHANGED <<nextReq, inflight, sent, chatInflight>>

\* ---------------------------------------------------------------------------
\* Configuration refresh
\* ---------------------------------------------------------------------------

\* refreshConfiguration() up to its first await: the request is sent
IssuePoll ==
    /\ nextReq < MaxPolls
    /\ nextReq' = nextReq + 1
    /\ inflight' = inflight \cup {nextReq + 1}
    /\ UNCHANGED <<bot, pc, sent, chatInflight, baselineFrom, lastEvent>>

\* the interval callback
TimerTick == bot.configRefreshInterval /\ IssuePoll

\* the visibilitychange listener: polls unless the document is hidden
VisibilityChange ==
    \E hidden \in BOOLEAN :
        /\ ~hidden
        /\ IssuePoll

\* the focus listener
WindowFocus ==
    /\ IssuePoll

\* window.ChatFlowRefresh()
ManualRefresh ==
    /\ IssuePoll

\* poll id ended in res on the response resp
Refreshed(id, resp, res) ==
    /\ bot' = res.st
    /\ baselineFrom' = IF res.changed THEN id ELSE baselineFrom
    /\ lastEvent' = [op |-> "poll", id |-> id, resp |-> resp, changed |-> res.changed,
                     threw |-> res.threw, rejected |-> res.rejected,
                     over |-> baselineFrom]

\* the response of a poll arrives and the rest of refreshConfiguration runs
RefreshConfigurationDone ==
    \E id \in inflight, resp \in Responses :
        /\ Refreshed(id, resp, refreshConfiguration(bot, resp))
        /\ inflight' = inflight \ {id}
        /\ UNCHANGED <<pc, nextReq, sent, chatInflight>>

\* ---------------------------------------------------------------------------
\* Chat
\* ---------------------------------------------------------------------------

ErrorReply == "Sorry, I encountered an error. Please try again."

\* sendMessage() up to its await: the user typed a message into the enabled
\* input of the displayed widget
SendMessage ==
    /\ bot.widget.attached
    /\ ~bot.widget.inputDisabled
    /\ bot.currentFileId # None
    /\ sent < MaxMessages
    /\ bot' = addMessage(bot, "question", "user")
    /\ sent' = sent + 1
    /\ chatInflight' = chatInflight \cup {[n |-> sent + 1, fileId |-> bot.currentFileId]}
    /\ UNCHANGED <<pc, nextReq, inflight, baselineFrom, lastEvent>>

\* the reply of a chat request arrives; a successful reply answers about the
\* fileId the request carried
SendMessageDone ==
    \E q \in chatInflight, success \in BOOLEAN :
        /\ bot' = addMessage(bot, IF success THEN q.fileId ELSE ErrorReply, "bot")
        /\ chatInflight' = chatInflight \ {q}
        /\ UNCHANGED <<pc, nextReq, inflight, sent, baselineFrom, lastEvent>>

\* ---------------------------------------------------------------------------
\* Teardown
\* ---------------------------------------------------------------------------

Destroy ==
    /\ bot' = destroy(bot)
    /\ UNCHANGED <<pc, nextReq, inflight, sent, chatInflight, baselineFrom, lastEvent>>

Next ==
    \/ ValidateApiKeyDone
    \/ LoadSdkConfigurationDone
    \/ TimerTick
    \/ VisibilityChange
    \/ WindowFocus
    \/ ManualRefresh
    \/ RefreshConfigurationDone
    \/ SendMessage
    \/ SendMessageDone
    \/ Destroy

Spec == Init /\ [][Next]_vars

\* ---------------------------------------------------------------------------
\* Change detection on its own: one call of hasConfigurationChanged on a
\* widget whose baseline is any configuration of the bounded value sets
\* ---------------------------------------------------------------------------

InitDiff ==
    /\ bot \in {[Constructed EXCEPT !.sdkConfig = c] : c \in AllConfigs}
    /\ pc = "ready"
    /\ nextReq = 0
    /\ inflight = {}
    /\ sent = 0
    /\ chatInflight = {}
    /\ baselineFrom = -1
    /\ lastEvent = NoEvent

HasConfigurationChangedCall ==
    /\ lastEvent = NoEvent
    /\ \E newConfig \in AllConfigs :
          lastEvent' = [NoEvent EXCEPT !.op = "diff", !.resp = Ok(newConfig),
                                       !.changed = hasConfigurationChanged(bot, newConfig)]
    /\ UNCHANGED <<bot, pc, nextReq, inflight, sent, chatInflight, baselineFrom>>

NextDiff == HasConfigurationChangedCall

SpecDiff == InitDiff /\ [][NextDiff]_vars

\* ---------------------------------------------------------------------------
\* The theme engine on its own: one call of createStyles on a widget whose
\* extracted theme is any theme of the value sets below
\* ---------------------------------------------------------------------------

\* #667eea (deny-list), #007bff (deny-list), #ffe8e0 (too light), #c4f2fd
\* (luminance 0.9), #1a0500 (too dark), #03270f (luminance 0.1), #808080
\* (grey), #c8b4aa (saturation 0.15), #c8b4a9 (saturation 0.155), #f60, and
\* no primary at all
Primaries ==
    {Orange, SeaGreen, Navy,
     Hex(<<6, 6, 7, 14, 14, 10>>), Hex(<<0, 0, 7, 11, 15, 15>>),
     Hex(<<15, 15, 14, 8, 14, 0>>), Hex(<<12, 4, 15, 2, 15, 13>>),
     Hex(<<1, 10, 0, 5, 0, 0>>), Hex(<<0, 3, 2, 7, 0, 15>>),
     Hex(<<8, 0, 8, 0, 8, 0>>), Hex(<<12, 8, 11, 4, 10, 10>>),
     Hex(<<12, 8, 11, 4, 10, 9>>), Hex(<<15, 6, 0>>), NoColor}

\* none, #1a365d, #ff6600, #e0e0ff
Secondaries == {NoColor, Navy, Orange, Hex(<<14, 0, 14, 0, 15, 15>>)}
\* none, #1a1a1a, #ff7010, #f0f4f8, #3a8fd0
Backgrounds ==
    {NoColor, Hex(<<1, 10, 1, 10, 1, 10>>), Hex(<<15, 15, 7, 0, 1, 0>>),
     Hex(<<15, 0, 15, 4, 15, 8>>), Hex(<<3, 10, 8, 15, 13, 0>>)}
\* none, #111111, #fafafa
Texts == {NoColor, Hex(<<1, 1, 1, 1, 1, 1>>), Hex(<<15, 10, 15, 10, 15, 10>>)}

HasValue(entry) == entry[2] # NoColor

\* the extracted theme whose colors has the roles that are given a colour
ExtractedTheme(primary, secondary, background, text) ==
    Theme(SelectSeq(<< <<"primary", primary>>, <<"secondary", secondary>>,
                      <<"background", background>>, <<"text", text>> >>, HasValue))

ExtractedThemes ==
    {NoThemeData, EmptyTheme}
    \cup {ExtractedTheme(p, s, b, t) :
              p \in Primaries, s \in Secondaries, b \in Backgrounds, t \in Texts}

ThemeStyles == {"default", "website"}

InitTheme ==
    /\ bot \in {[Constructed EXCEPT !.options.themeStyle = style, !.websiteTheme = t] :
                    style \in ThemeStyles, t \in ExtractedThemes}
    /\ pc = "ready"
    /\ nextReq = 0
    /\ inflight = {}
    /\ sent = 0
    /\ chatInflight = {}
    /\ baselineFrom = -1
    /\ lastEvent = NoEvent

CreateStylesCall ==
    /\ lastEvent = NoEvent
    /\ bot' = createStyles(bot)
    /\ lastEvent' = [NoEvent EXCEPT !.op = "theme"]
    /\ UNCHANGED <<pc, nextReq, inflight, sent, chatInflight, baselineFrom>>

NextTheme == CreateStylesCall

SpecTheme == InitTheme /\ [][NextTheme]_vars

\* ---------------------------------------------------------------------------
\* The accessibility pass on its own: ensureAccessibleColors applied, and
\* applied again, to any palette of the value sets below
\* ---------------------------------------------------------------------------

\* #ffffff, #f8f9fa, #e2e8f0, #2d3748, #1a1a1a, #4299e1, #63b3ed, #5aa8e8,
\* #ff6600, no value, and #7e1a1a and #7d1a1a, at distance 100 and 99 from
\* #1a1a1a
PaletteColors ==
    {White, Hex(<<15, 8, 15, 9, 15, 10>>), Hex(<<14, 2, 14, 8, 15, 0>>), DarkText,
     Hex(<<1, 10, 1, 10, 1, 10>>), Hex(<<4, 2, 9, 9, 14, 1>>),
     Hex(<<6, 3, 11, 3, 14, 13>>), Hex(<<5, 10, 10, 8, 14, 8>>), Orange, NoColor,
     Hex(<<7, 14, 1, 10, 1, 10>>), Hex(<<7, 13, 1, 10, 1, 10>>)}

InputPalettes ==
    {[getDefaultThemeColors EXCEPT !.primary = p, !.background = b, !.text = t, !.botBg = g] :
         p \in PaletteColors, b \in PaletteColors, t \in PaletteColors, g \in PaletteColors}

InitAccessible ==
    /\ bot \in {[Constructed EXCEPT !.styleSheet = p] : p \in InputPalettes}
    /\ pc = "ready"
    /\ nextReq = 0
    /\ inflight = {}
    /\ sent = 0
    /\ chatInflight = {}
    /\ baselineFrom = -1
    /\ lastEvent = NoEvent

\* the pass is applied to the palette, at most twice; the event keeps the
\* palette the first application was given
EnsureAccessibleColorsCall ==
    /\ lastEvent.id < 2
    /\ bot' = [bot EXCEPT !.styleSheet = ensureAccessibleColors(@)]
    /\ lastEvent' = [lastEvent EXCEPT
                         !.op = "accessible", !.id = @ + 1,
                         !.resp = IF lastEvent.id = 0
                                  THEN [kind |-> "palette", data |-> bot.styleSheet]
                                  ELSE @]
    /\ UNCHANGED <<pc, nextReq, inflight, sent, chatInflight, baselineFrom>>

NextAccessible == EnsureAccessibleColorsCall

SpecAccessible == InitAccessible /\ [][NextAccessible]_vars

\* ---------------------------------------------------------------------------
\* The colour transforms on their own: one call of darkenColor, lightenColor
\* or adjustColorBrightness on a colour string of the value sets below
\* ---------------------------------------------------------------------------

\* the channel values 00, 01, 7f, 80, 9b, 9c, fe and ff
RgbChannels ==
    {<<0, 0>>, <<0, 1>>, <<7, 15>>, <<8, 0>>, <<9, 11>>, <<9, 12>>, <<15, 14>>, <<15, 15>>}

\* the #rrggbb colours of these channel values
RgbColors == {Hex(r \o g \o b) : r \in RgbChannels, g \in RgbChannels, b \in RgbChannels}

\* well-formed: #ff6600, #ffffff, #000000, #010203, #2e8b57 and RgbColors;
\* malformed: ff6600, fff, the empty string, #, #fff, #ff66, #ff66001,
\* #ff66NN, #NNNNNN
ColorStrings ==
    RgbColors \cup
    {Orange, White, Hex(<<0, 0, 0, 0, 0, 0>>), Hex(<<0, 1, 0, 2, 0, 3>>), SeaGreen,
     [hash |-> FALSE, digits |-> <<15, 15, 6, 6, 0, 0>>],
     [hash |-> FALSE, digits |-> <<15, 15, 15>>],
     NoColor, Hex(<<>>), Hex(<<15, 15, 15>>), Hex(<<15, 15, 6, 6>>),
     Hex(<<15, 15, 6, 6, 0, 0, 1>>), Hex(<<15, 15, 6, 6, CharN, CharN>>),
     Hex(<<CharN, CharN, CharN, CharN, CharN, CharN>>)}

\* the percentages of the interpolations, and 0 and 100
Percents == {0, 20, 60, 75, 100}
\* the signed percentages of the brightness adjustment
SignedPercents == {-15, -8, 0, 20}

ColorCall(op, color, percent, result) ==
    [op |-> op, color |-> color, percent |-> percent, result |-> result]

InitColorMath ==
    /\ bot = Constructed
    /\ pc = "ready"
    /\ nextReq = 0
    /\ inflight = {}
    /\ sent = 0
    /\ chatInflight = {}
    /\ baselineFrom = -1
    /\ lastEvent = NoEvent

DarkenColorCall ==
    /\ lastEvent = NoEvent
    /\ \E color \in ColorStrings, percent \in Percents :
          lastEvent' = ColorCall("darkenColor", color, percent, darkenColor(color, percent))
    /\ UNCHANGED <<bot, pc, nextReq, inflight, sent, chatInflight, baselineFrom>>

LightenColorCall ==
    /\ lastEvent = NoEvent
    /\ \E color \in ColorStrings, percent \in Percents :
          lastEvent' = ColorCall("lightenColor", color, percent, lightenColor(color, percent))
    /\ UNCHANGED <<bot, pc, nextReq, inflight, sent, chatInflight, baselineFrom>>

AdjustColorBrightnessCall ==
    /\ lastEvent = NoEvent
    /\ \E hex \in ColorStrings, percent \in SignedPercents :
          lastEvent' = ColorCall("adjustColorBrightness", hex, percent,
                                 adjustColorBrightness(hex, percent))
    /\ UNCHANGED <<bot, pc, nextReq, inflight, sent, chatInflight, baselineFrom>>

NextColorMath ==
    \/ DarkenColorCall
    \/ LightenColorCall
    \/ AdjustColorBrightnessCall

SpecColorMath == InitColorMath /\ [][NextColorMath]_vars

\* ---------------------------------------------------------------------------
\* The text colour choice on its own: one call of getContrastingTextColor on
\* a background colour of RgbColors
\* ---------------------------------------------------------------------------

GetContrastingTextColorCall ==
    /\ lastEvent = NoEvent
    /\ \E backgroundColor \in RgbColors :
          lastEvent' = ColorCall("getContrastingTextColor", backgroundColor, 0,
                                 getContrastingTextColor(backgroundColor))
    /\ UNCHANGED <<bot, pc, nextReq, inflight, sent, chatInflight, baselineFrom>>

NextContrast == GetContrastingTextColorCall

SpecContrast == InitColorMath /\ [][NextContrast]_vars

\* ---------------------------------------------------------------------------
\* The switch to the website theme: the widget has loaded a configuration with
\* the default theme choice, and a poll answers with the website choice and
\* any extracted theme
\* ---------------------------------------------------------------------------

\* the configurations of the default theme choice the backend serves
DefaultChoiceConfigs ==
    {c \in Configs : c.integration.present /\ c.integration.themeChoice = "default"}

\* the configuration after the owner chose the website theme
WebsiteChoiceConfigs ==
    {Config(Site("a"), List(<<"a">>), Integration("website", NoCustomizations), t) :
         t \in ExtractedThemes}

\* init() has run to its end on the configuration c
LoadedOn(c) ==
    /\ bot = loadSdkConfiguration(Constructed, Ok(c)).st
    /\ lastEvent = [op |-> "load", id |-> 0, resp |-> Ok(c), changed |-> FALSE,
                    threw |-> loadSdkConfiguration(Constructed, Ok(c)).threw,
                    rejected |-> FALSE, over |-> 0]

InitSwitch ==
    /\ \E c \in DefaultChoiceConfigs : LoadedOn(c)
    /\ pc = "ready"
    /\ nextReq = 0
    /\ inflight = {}
    /\ sent = 0
    /\ chatInflight = {}
    /\ baselineFrom = -1

\* the response of a poll arrives while the baseline has the default choice,
\* and the rest of refreshConfiguration runs on it
WebsiteChoiceArrives ==
    /\ bot.sdkConfig.integration.themeChoice = "default"
    /\ \E id \in inflight, c \in WebsiteChoiceConfigs :
          Refreshed(id, Ok(c), refreshConfiguration(bot, Ok(c)))
          /\ inflight' = inflight \ {id}
    /\ UNCHANGED <<pc, nextReq, sent, chatInflight>>

NextSwitch == IssuePoll \/ WebsiteChoiceArrives

SpecSwitch == InitSwitch /\ [][NextSwitch]_vars

\* ---------------------------------------------------------------------------
\* Properties
\* ---------------------------------------------------------------------------

\* a step in which the rest of refreshConfiguration ran on a response
PollCompletes == lastEvent' # lastEvent /\ lastEvent'.op = "poll"

\* a step in which the rest of loadSdkConfiguration ran on a response
LoadCompletes == lastEvent' # lastEvent /\ lastEvent'.op = "load"

\* a configuration that has the members the apply reads
WellFormed(c) == c.integration.present /\ c.availableWebsites.present

HasContent(c) ==
    \/ c.selectedWebsite.present
    \/ (c.availableWebsites.present /\ Len(c.availableWebsites.items) > 0)

ContentId(c) ==
    IF c.selectedWebsite.present THEN c.selectedWebsite.id
    ELSE c.availableWebsites.items[1]

\* the diff rule as the specification words it
DiffRule(old, new) ==
    \/ WebsiteId(old) # WebsiteId(new)
    \/ ThemeChoice(old) # ThemeChoice(new)
    \/ /\ ThemeChoice(new) = "website"
       /\ JSONstringify(old.themeData) # JSONstringify(new.themeData)

\* C1: when validateApiKey() returned false, the interval timer is not set up
\* and no configuration poll has been issued.
C1_NoSyncAfterInvalidKey ==
    pc = "keyError" => (~bot.configRefreshInterval /\ nextReq = 0)

\* C2: once showApiKeyError() has run, the chat input and the send button are
\* disabled in every later state.
C2_InputStaysDisabled ==
    pc = "keyError" => (bot.widget.inputDisabled /\ bot.widget.sendDisabled)

\* C3: after destroy() the baseline, the options (theme style included), the
\* current content id, the injected styles and the chat history never change
\* again, and no further poll is started.
C3_NothingAfterDestroy ==
    [][~bot.widget.attached =>
          /\ bot'.sdkConfig = bot.sdkConfig
          /\ bot'.options = bot.options
          /\ bot'.currentFileId = bot.currentFileId
          /\ bot'.styleSheet = bot.styleSheet
          /\ bot'.chatHistory = bot.chatHistory
          /\ nextReq' = nextReq]_vars

\* the state a loaded or applied configuration without content leaves
NoContentState ==
    /\ bot.sdkConfig # NoConfig
    /\ WellFormed(bot.sdkConfig)
    /\ ~HasContent(bot.sdkConfig)
    /\ bot.widget.inputDisabled
    /\ bot.widget.messages = "noSites"

\* C4: from the no-content state, the next successful poll whose (well-formed)
\* configuration has content enables the input and sets the current content
\* id to that content.
C4_NoContentRecovers ==
    [][(/\ NoContentState
        /\ PollCompletes
        /\ lastEvent'.resp.kind = "ok"
        /\ WellFormed(lastEvent'.resp.data)
        /\ HasContent(lastEvent'.resp.data))
       => (/\ ~bot'.widget.inputDisabled
           /\ bot'.currentFileId = ContentId(lastEvent'.resp.data))]_vars

\* C5: a poll whose fetch rejects, whose body fails to parse or whose envelope
\* is not a success envelope leaves the whole instance as it was (baseline,
\* options, theme, content id, input, chat history, interval timer) and the
\* promise of refreshConfiguration does not reject.
C5_FailedPollChangesNothing ==
    [][(PollCompletes /\ lastEvent'.resp.kind # "ok")
       => (bot' = bot /\ ~lastEvent'.rejected)]_vars

C5_Witness ==
    /\ lastEvent.op = "poll"
    /\ lastEvent.resp.kind = "reject"
    /\ bot.sdkConfig # NoConfig
    /\ ~bot.widget.inputDisabled
    /\ Len(bot.chatHistory) > 0
    /\ bot.configRefreshInterval

\* what a completed apply of the baseline leaves in the widget
Resolved(s) ==
    LET c == s.sdkConfig
    IN /\ WellFormed(c)
       /\ s.options.themeStyle =
              (IF c.integration.themeChoice = "website" /\ c.themeData.present
               THEN "website" ELSE "default")
       /\ s.websiteTheme =
              (IF c.integration.themeChoice = "website" /\ c.themeData.present
               THEN c.themeData ELSE NoThemeData)
       /\ s.widget.inputDisabled = ~HasContent(c)
       /\ HasContent(c) => s.currentFileId = ContentId(c)

\* C6: whenever a poll replaces the baseline by a configuration, theme style,
\* website theme, current content id and input state are those of that
\* configuration.
C6_ApplyAllOrNothing ==
    [][(PollCompletes /\ bot'.sdkConfig # bot.sdkConfig) => Resolved(bot')]_vars

\* the facets the initial load and the apply are compared on
Facets(s) ==
    <<s.options.position, s.widget.className, s.options.title, s.widget.titleText,
      s.options.placeholder, s.options.themeStyle, s.websiteTheme, s.currentFileId,
      s.widget.inputDisabled>>

\* C7: the initial load of a (well-formed) configuration leaves position,
\* position class, title, title text, placeholder, theme style, website
\* theme, current content id and input state as applyNewConfiguration would
\* from the same state.
C7_LoadMatchesApply ==
    [][(/\ LoadCompletes
        /\ lastEvent'.resp.kind = "ok"
        /\ WellFormed(lastEvent'.resp.data))
       => Facets(bot') = Facets(applyNewConfiguration(bot, lastEvent'.resp.data).st)]_vars

\* C8: a completing successful poll compares its configuration against the
\* baseline of the moment it completes, whatever the order of the requests;
\* when a change is detected the baseline becomes its configuration,
\* otherwise the baseline stays.
C8_LastWriterWins ==
    [][(PollCompletes /\ lastEvent'.resp.kind = "ok")
       => (/\ lastEvent'.changed =
                (bot.sdkConfig = NoConfig \/ DiffRule(bot.sdkConfig, lastEvent'.resp.data))
           /\ bot'.sdkConfig =
                (IF lastEvent'.changed THEN lastEvent'.resp.data ELSE bot.sdkConfig)
           /\ baselineFrom' =
                (IF lastEvent'.changed THEN lastEvent'.id ELSE baselineFrom))]_vars

\* the response of an earlier request replaced the configuration that a later
\* request had applied
C8_Witness ==
    /\ lastEvent.op = "poll"
    /\ lastEvent.changed
    /\ lastEvent.over > lastEvent.id
    /\ baselineFrom = lastEvent.id
    /\ bot.sdkConfig = lastEvent.resp.data

\* C9: with a baseline present, hasConfigurationChanged is true exactly when
\* the selected website ids differ, or the theme choices differ, or the new
\* theme choice is 'website' and the serialized themeData differ; it is false
\* for a configuration compared with itself.
C9_DiffRule ==
    lastEvent.op = "diff" =>
        /\ lastEvent.changed = DiffRule(bot.sdkConfig, lastEvent.resp.data)
        /\ lastEvent.resp.data = bot.sdkConfig => ~lastEvent.changed

\* a change detected from the serialized themeData alone
C9_Witness ==
    /\ lastEvent.op = "diff"
    /\ lastEvent.changed
    /\ WebsiteId(bot.sdkConfig) = WebsiteId(lastEvent.resp.data)
    /\ ThemeChoice(bot.sdkConfig) = "website"
    /\ ThemeChoice(lastEvent.resp.data) = "website"

\* C10: with no baseline, a successful poll is detected as changed and its
\* configuration becomes the baseline.
C10_FirstPollApplies ==
    [][(PollCompletes /\ lastEvent'.resp.kind = "ok" /\ bot.sdkConfig = NoConfig)
       => (lastEvent'.changed /\ bot'.sdkConfig = lastEvent'.resp.data)]_vars

C10_Witness ==
    /\ lastEvent.op = "poll"
    /\ lastEvent.resp.kind = "ok"
    /\ lastEvent.over = 0
    /\ lastEvent.changed
    /\ bot.sdkConfig = lastEvent.resp.data

\* a step in which a poll detected a change and applied its configuration
PollApplies == PollCompletes /\ lastEvent'.resp.kind = "ok" /\ lastEvent'.changed

\* C11: a successful poll whose configuration has the selected website id of
\* the baseline and, like the baseline, the theme choice 'default' is
\* treated as unchanged and leaves the whole instance as it was (baseline,
\* position, title, placeholder, theme style, website theme, current content
\* id, input state, injected styles, chat history).
C11_SameIdSameDefaultChoice ==
    [][(/\ PollCompletes
        /\ lastEvent'.resp.kind = "ok"
        /\ bot.sdkConfig # NoConfig
        /\ WebsiteId(lastEvent'.resp.data) = WebsiteId(bot.sdkConfig)
        /\ ThemeChoice(bot.sdkConfig) = "default"
        /\ ThemeChoice(lastEvent'.resp.data) = "default")
       => (~lastEvent'.changed /\ bot' = bot)]_vars

\* an unchanged poll whose configuration differs from the baseline in other
\* members than the compared ones
C11_Witness ==
    /\ lastEvent.op = "poll"
    /\ lastEvent.resp.kind = "ok"
    /\ ~lastEvent.changed
    /\ bot.sdkConfig # NoConfig
    /\ lastEvent.resp.data # bot.sdkConfig
    /\ WebsiteId(lastEvent.resp.data) = WebsiteId(bot.sdkConfig)
    /\ ThemeChoice(bot.sdkConfig) = "default"
    /\ ThemeChoice(lastEvent.resp.data) = "default"
    /\ Len(bot.chatHistory) > 0

\* C12: with a baseline whose selected website id is a, a successful poll
\* whose (well-formed) configuration selects b # a is detected as changed,
\* and when it has completed the current content id is b and the chat
\* history is empty.
C12_WebsiteSwitch ==
    [][(/\ PollCompletes
        /\ lastEvent'.resp.kind = "ok"
        /\ bot.sdkConfig # NoConfig
        /\ bot.sdkConfig.selectedWebsite.present
        /\ lastEvent'.resp.data.selectedWebsite.present
        /\ lastEvent'.resp.data.selectedWebsite.id # bot.sdkConfig.selectedWebsite.id
        /\ WellFormed(lastEvent'.resp.data))
       => (/\ lastEvent'.changed
           /\ bot'.currentFileId = lastEvent'.resp.data.selectedWebsite.id
           /\ bot'.chatHistory = <<>>)]_vars

\* the switch happened while a question about the previous website was
\* still waiting for its reply
C12_Witness ==
    /\ lastEvent.op = "poll"
    /\ lastEvent.changed
    /\ lastEvent.over > 0
    /\ lastEvent.resp.data.selectedWebsite.present
    /\ bot.currentFileId = lastEvent.resp.data.selectedWebsite.id
    /\ bot.chatHistory = <<>>
    /\ \E q \in chatInflight : q.fileId # bot.currentFileId

\* C13: when a changed (well-formed) configuration is applied, each of
\* position class, title text and placeholder text takes the value the
\* customizations give it, and keeps its value when the customizations do
\* not give one. The placeholder text is compared only where the input is
\* enabled before and after, since a disabled input shows its own text.
C13_CustomizationFacets ==
    [][(PollApplies /\ WellFormed(lastEvent'.resp.data))
       => LET k == lastEvent'.resp.data.integration.customizations
          IN /\ bot'.widget.className =
                    (IF k.present /\ k.position # None THEN k.position
                     ELSE bot.widget.className)
             /\ bot'.widget.titleText =
                    (IF k.present /\ k.title # None THEN k.title
                     ELSE bot.widget.titleText)
             /\ (~bot.widget.inputDisabled /\ ~bot'.widget.inputDisabled)
                    => bot'.widget.inputPlaceholder =
                           (IF k.present /\ k.placeholder # None THEN k.placeholder
                            ELSE bot.widget.inputPlaceholder)]_vars

\* C14: after applyNewConfiguration(C), C having an integration member, the
\* theme style is 'website' exactly when C.integration.themeChoice is
\* 'website' and C.themeData is present, and 'default' in every other case.
C14_ThemeStyleResolved ==
    [][(PollApplies /\ lastEvent'.resp.data.integration.present)
       => bot'.options.themeStyle =
              (IF /\ lastEvent'.resp.data.integration.themeChoice = "website"
                  /\ lastEvent'.resp.data.themeData.present
               THEN "website" ELSE "default")]_vars

\* the 'website' choice without themeData resolved to the default style
C14_Witness ==
    /\ lastEvent.op = "poll"
    /\ lastEvent.changed
    /\ lastEvent.resp.data.integration.present
    /\ lastEvent.resp.data.integration.themeChoice = "website"
    /\ ~lastEvent.resp.data.themeData.present
    /\ bot.options.themeStyle = "default"
    /\ bot.sdkConfig = lastEvent.resp.data

\* C15: after applyNewConfiguration(C), C well-formed: with a selected
\* website the current content id is its id and the input is enabled;
\* otherwise, with a non-empty availableWebsites, the current content id is
\* the id of its first element and the input is enabled; otherwise the
\* no-content message is shown and the input is disabled.
C15_ContentResolved ==
    [][(PollApplies /\ WellFormed(lastEvent'.resp.data))
       => LET c == lastEvent'.resp.data
          IN IF c.selectedWebsite.present
             THEN /\ bot'.currentFileId = c.selectedWebsite.id
                  /\ ~bot'.widget.inputDisabled
             ELSE IF Len(c.availableWebsites.items) > 0
             THEN /\ bot'.currentFileId = c.availableWebsites.items[1]
                  /\ ~bot'.widget.inputDisabled
             ELSE /\ bot'.widget.messages = "noSites"
                  /\ bot'.widget.inputDisabled]_vars

\* the first available website was taken for want of a selected one
C15_Witness ==
    /\ lastEvent.op = "poll"
    /\ lastEvent.changed
    /\ ~lastEvent.threw
    /\ ~lastEvent.resp.data.selectedWebsite.present
    /\ Len(lastEvent.resp.data.availableWebsites.items) > 0
    /\ bot.currentFileId = lastEvent.resp.data.availableWebsites.items[1]
    /\ ~bot.widget.inputDisabled

\* a colour string of the form #rrggbb
IsRgbColor(c) ==
    /\ c.hash
    /\ Len(c.digits) = 6
    /\ \A i \in 1..6 : c.digits[i] \in 0..15

\* perceptual brightness (299 R + 587 G + 114 B) / 1000 > 155
ClassifiedLight(c) == 299 * Red(c) + 587 * Green(c) + 114 * Blue(c) > 155 * 1000

\* the primary of the extracted theme of the widget
ExtractedPrimary(s) == Role(s.websiteTheme.colors, "primary")

\* createStyles ran on a widget in website style whose extracted theme has a
\* primary that passes validation
ValidatedPrimary ==
    /\ lastEvent.op = "theme"
    /\ bot.options.themeStyle = "website"
    /\ bot.websiteTheme.present
    /\ bot.websiteTheme.hasColors
    /\ isWebsiteSpecificColor(ExtractedPrimary(bot))

\* C16: in every palette produced for a validated primary, text and
\* background are not in the same lightness class, and text and botBg are
\* not in the same lightness class.
C16_ContrastPairs ==
    ValidatedPrimary =>
        /\ ClassifiedLight(bot.styleSheet.text) # ClassifiedLight(bot.styleSheet.background)
        /\ ClassifiedLight(bot.styleSheet.text) # ClassifiedLight(bot.styleSheet.botBg)

\* 1000 * (0.299 R + 0.587 G + 0.114 B)
Luma(c) == 299 * Red(c) + 587 * Green(c) + 114 * Blue(c)

\* luminance above 0.9 or below 0.1, as the double-precision expression
\* (0.299 R + 0.587 G + 0.114 B) / 255 evaluates
LuminanceOutOfRange(c) ==
    \/ 10 * Luma(c) > 9 * 255 * 1000
    \/ 10 * Luma(c) < 255 * 1000
    \/ <<Red(c), Green(c), Blue(c)>> \in RoundsAboveNineTenths \cup RoundsBelowOneTenth

\* saturation (max - min) / max at most 0.15, 0 when max is 0
SaturationAtMost15(c) ==
    LET hi == Max3(Red(c), Green(c), Blue(c))
        lo == Min3(Red(c), Green(c), Blue(c))
    IN hi = 0 \/ 100 * (hi - lo) <= 15 * hi

ThemeAbsent(s) ==
    \/ ~s.websiteTheme.present
    \/ ~s.websiteTheme.hasColors
    \/ ExtractedPrimary(s) = NoColor

FailsValidation(c) ==
    \/ c \in genericColors
    \/ IsRgbColor(c) /\ (LuminanceOutOfRange(c) \/ SaturationAtMost15(c))

NoChannelAbove(a, b) ==
    Red(a) <= Red(b) /\ Green(a) <= Green(b) /\ Blue(a) <= Blue(b)

\* C18: for an extracted theme of #rrggbb colours whose primary passes
\* validation, every role of the derived palette is a #rrggbb colour
\* (channels within 0..255), and the derived colours lie on the side of
\* their source that clamping, not wrapping, gives: primaryDark, the derived
\* secondary and the derived border not above, primaryLight not below.
C18_ChannelsInRange ==
    ValidatedPrimary =>
        /\ \A role \in DOMAIN bot.styleSheet : IsRgbColor(bot.styleSheet[role])
        /\ NoChannelAbove(bot.styleSheet.primaryDark, ExtractedPrimary(bot))
        /\ NoChannelAbove(ExtractedPrimary(bot), bot.styleSheet.primaryLight)
        /\ Role(bot.websiteTheme.colors, "secondary") = NoColor
               => NoChannelAbove(bot.styleSheet.secondary, ExtractedPrimary(bot))
        /\ NoChannelAbove(bot.styleSheet.border, bot.styleSheet.background)

\* the derived secondary had a channel clamped at 0
C18_Witness ==
    /\ ValidatedPrimary
    /\ Role(bot.websiteTheme.colors, "secondary") = NoColor
    /\ Red(ExtractedPrimary(bot)) > 0
    /\ Red(bot.styleSheet.secondary) = 0

\* C19: ensureAccessibleColors applied to the palette it returned changes
\* nothing.
C19_AccessibleIdempotent ==
    [][(lastEvent.op = "accessible" /\ lastEvent'.id = 2)
       => bot'.styleSheet = bot.styleSheet]_vars

\* the pass was applied twice to a palette of which the first application
\* replaced text, botBg and primary
C19_Witness ==
    /\ lastEvent.op = "accessible"
    /\ lastEvent.id = 2
    /\ bot.styleSheet.text # lastEvent.resp.data.text
    /\ bot.styleSheet.botBg # lastEvent.resp.data.botBg
    /\ bot.styleSheet.primary # lastEvent.resp.data.primary

\* a colour string without a leading '#', or without exactly 6 hexadecimal
\* digits after it
Malformed(c) == ~IsRgbColor(c)

\* C20: darkenColor, lightenColor and adjustColorBrightness return a
\* malformed colour unchanged.
C20_MalformedUnchanged ==
    (/\ lastEvent.op \in {"darkenColor", "lightenColor", "adjustColorBrightness"}
     /\ Malformed(lastEvent.color))
        => lastEvent.result = lastEvent.color

\* v + amount kept within 0..255
Clamped(v) == IF v < 0 THEN 0 ELSE IF v > 255 THEN 255 ELSE v

\* c is the #rrggbb colour of a with amount added to each channel, clamped
IsShifted(c, a, amount) ==
    /\ IsRgbColor(c)
    /\ Red(c) = Clamped(Red(a) + amount)
    /\ Green(c) = Clamped(Green(a) + amount)
    /\ Blue(c) = Clamped(Blue(a) + amount)

\* C21: for a validated primary, the secondary of the palette is the
\* extracted secondary when there is one and it differs from the primary;
\* otherwise it is the primary with round(2.55 * -15) = -38 added to each
\* channel, clamped to 0..255.
C21_SecondaryRule ==
    ValidatedPrimary =>
        IF /\ Role(bot.websiteTheme.colors, "secondary") # NoColor
           /\ Role(bot.websiteTheme.colors, "secondary") # ExtractedPrimary(bot)
        THEN bot.styleSheet.secondary = Role(bot.websiteTheme.colors, "secondary")
        ELSE IsShifted(bot.styleSheet.secondary, ExtractedPrimary(bot), -38)

\* C22: getContrastingTextColor gives dark text (#2d3748) for a background
\* of perceptual brightness above 155 and white text (#ffffff) for any other.
C22_ContrastingText ==
    lastEvent.op = "getContrastingTextColor" =>
        lastEvent.result = (IF ClassifiedLight(lastEvent.color) THEN DarkText ELSE White)

\* a step in which ensureAccessibleColors ran on the palette of the widget
PassRuns == lastEvent' # lastEvent /\ lastEvent'.op = "accessible"

\* background, text, botBg and primary of the palette are #rrggbb colours
RgbPalette(colors) ==
    \A role \in {"background", "text", "botBg", "primary"} : IsRgbColor(colors[role])

\* C23: on a palette of #rrggbb colours, ensureAccessibleColors returns
\* every role other than text and primary, botBg included, as it was given,
\* and where botBg and text are both light against a dark background it
\* forces the text to dark (#2d3748).
C23_BotBgPairForcesText ==
    [][(PassRuns /\ RgbPalette(bot.styleSheet))
       => /\ \A role \in DOMAIN bot.styleSheet \ {"text", "primary"} :
                 bot'.styleSheet[role] = bot.styleSheet[role]
          /\ (/\ isLightColor(bot.styleSheet.botBg)
              /\ isLightColor(bot.styleSheet.text)
              /\ isDarkColor(bot.styleSheet.background))
                 => bot'.styleSheet.text = DarkText]_vars

\* the square of the Euclidean distance of two #rrggbb colours
Distance2(a, b) ==
    (Red(a) - Red(b)) * (Red(a) - Red(b))
    + (Green(a) - Green(b)) * (Green(a) - Green(b))
    + (Blue(a) - Blue(b)) * (Blue(a) - Blue(b))

\* C24: ensureAccessibleColors replaces a #rrggbb primary exactly when its
\* distance to the #rrggbb background is below 100, by #4299e1 when the
\* background is light and #63b3ed when it is dark; at a distance of 100 or
\* more it leaves primary as it was.
C24_PrimaryReplacedByDistance ==
    [][(/\ PassRuns
        /\ IsRgbColor(bot.styleSheet.primary)
        /\ IsRgbColor(bot.styleSheet.background))
       => bot'.styleSheet.primary =
              (IF Distance2(bot.styleSheet.primary, bot.styleSheet.background) < 100 * 100
               THEN (IF ClassifiedLight(bot.styleSheet.background)
                     THEN Hex(<<4, 2, 9, 9, 14, 1>>) ELSE Hex(<<6, 3, 11, 3, 14, 13>>))
               ELSE bot.styleSheet.primary)]_vars

\* #7d1a1a, at distance 99 from the dark background #1a1a1a, was replaced
C24_Witness ==
    /\ lastEvent.op = "accessible"
    /\ lastEvent.id = 1
    /\ lastEvent.resp.data.primary = Hex(<<7, 13, 1, 10, 1, 10>>)
    /\ lastEvent.resp.data.background = Hex(<<1, 10, 1, 10, 1, 10>>)
    /\ bot.styleSheet.background = Hex(<<1, 10, 1, 10, 1, 10>>)
    /\ bot.styleSheet.primary = Hex(<<6, 3, 11, 3, 14, 13>>)

\* C26: for a #rrggbb colour c, darkenColor(c, 0) = c, lightenColor(c, 0) = c,
\* darkenColor(c, 100) = #000000 and lightenColor(c, 100) = #ffffff.
C26_InterpolationEnds ==
    (lastEvent.op \in {"darkenColor", "lightenColor"} /\ IsRgbColor(lastEvent.color))
        => /\ lastEvent.percent = 0 => lastEvent.result = lastEvent.color
           /\ (lastEvent.op = "darkenColor" /\ lastEvent.percent = 100)
                  => lastEvent.result = Hex(<<0, 0, 0, 0, 0, 0>>)
           /\ (lastEvent.op = "lightenColor" /\ lastEvent.percent = 100)
                  => lastEvent.result = White

\* #017f9b lightened by 100 percent is white
C26_Witness ==
    /\ lastEvent.op = "lightenColor"
    /\ lastEvent.percent = 100
    /\ lastEvent.color = Hex(<<0, 1, 7, 15, 9, 11>>)
    /\ lastEvent.result = White

\* round(x / 100) for a natural x
Rounded100(x) == (x + 50) \div 100

\* c is the #rrggbb colour a with every channel scaled to (100 - percent) percent
IsDarkened(c, a, percent) ==
    /\ IsRgbColor(c)
    /\ Red(c) = Rounded100(Red(a) * (100 - percent))
    /\ Green(c) = Rounded100(Green(a) * (100 - percent))
    /\ Blue(c) = Rounded100(Blue(a) * (100 - percent))

\* c is the #rrggbb colour a with every channel moved percent percent of the
\* way to 255
IsLightened(c, a, percent) ==
    /\ IsRgbColor(c)
    /\ Red(c) = Rounded100(100 * Red(a) + (255 - Red(a)) * percent)
    /\ Green(c) = Rounded100(100 * Green(a) + (255 - Green(a)) * percent)
    /\ Blue(c) = Rounded100(100 * Blue(a) + (255 - Blue(a)) * percent)

\* the primary of the configuration a response carries
ResponsePrimary(resp) == Role(resp.data.themeData.colors, "primary")

\* a poll completes that switches the baseline from the default choice to the
\* website choice with an extracted #rrggbb primary that passes validation
SwitchesToWebsite ==
    /\ PollCompletes
    /\ lastEvent'.resp.kind = "ok"
    /\ bot.sdkConfig.integration.themeChoice = "default"
    /\ lastEvent'.resp.data.integration.themeChoice = "website"
    /\ lastEvent'.resp.data.themeData.present
    /\ lastEvent'.resp.data.themeData.hasColors
    /\ IsRgbColor(ResponsePrimary(lastEvent'.resp))
    /\ isWebsiteSpecificColor(ResponsePrimary(lastEvent'.resp))

\* primaryDark and primaryLight are the primary p darkened and lightened by
\* 20 percent
ShadesOf(colors, p) ==
    /\ IsDarkened(colors.primaryDark, p, 20)
    /\ IsLightened(colors.primaryLight, p, 20)

\* C25 as stated: a poll that switches the baseline from 'default' to
\* 'website' with a validated primary is detected as a change, and afterwards
\* the palette's primary is the extracted primary, primaryDark is it darkened
\* by 20 percent and primaryLight is it lightened by 20 percent.
C25_SwitchGivesExtractedPrimary ==
    [][SwitchesToWebsite
       => /\ lastEvent'.changed
          /\ bot'.styleSheet.primary = ResponsePrimary(lastEvent'.resp)
          /\ ShadesOf(bot'.styleSheet, ResponsePrimary(lastEvent'.resp))]_vars

\* the background the palette is built with: the extracted one, or white
PaletteBackground(resp) ==
    OrElse(Role(resp.data.themeData.colors, "background"), White)

\* C25 amended: a poll that switches the baseline from 'default' to 'website'
\* with a validated primary is detected as a change, and afterwards
\* primaryDark is the extracted primary darkened by 20 percent, primaryLight
\* is it lightened by 20 percent, and the palette's primary is the extracted
\* primary unless that is within a distance of 100 of the palette's
\* background, in which case it is #4299e1 on a light background and #63b3ed
\* on a dark one.
C25_SwitchGivesPrimaryOrReplacement ==
    [][SwitchesToWebsite
       => /\ lastEvent'.changed
          /\ ShadesOf(bot'.styleSheet, ResponsePrimary(lastEvent'.resp))
          /\ bot'.styleSheet.primary =
                 (IF Distance2(ResponsePrimary(lastEvent'.resp),
                               PaletteBackground(lastEvent'.resp)) < 100 * 100
                  THEN (IF ClassifiedLight(PaletteBackground(lastEvent'.resp))
                        THEN Hex(<<4, 2, 9, 9, 14, 1>>) ELSE Hex(<<6, 3, 11, 3, 14, 13>>))
                  ELSE ResponsePrimary(lastEvent'.resp))]_vars

\* the switch to #ff6600 on the similar background #ff7010 was applied: the
\* primary is #63b3ed, primaryDark is #cc5200
C25_Witness ==
    /\ lastEvent.op = "poll"
    /\ lastEvent.changed
    /\ lastEvent.over = -1
    /\ bot.sdkConfig.integration.themeChoice = "website"
    /\ ResponsePrimary(lastEvent.resp) = Orange
    /\ PaletteBackground(lastEvent.resp) = Hex(<<15, 15, 7, 0, 1, 0>>)
    /\ bot.styleSheet.primary = Hex(<<6, 3, 11, 3, 14, 13>>)
    /\ bot.styleSheet.primaryDark = Hex(<<12, 12, 5, 2, 0, 0>>)

\* new differs from the baseline old in its customizations and in nothing else
CustomizationsOnly(old, new) ==
    /\ old # NoConfig
    /\ WellFormed(old)
    /\ WellFormed(new)
    /\ new.selectedWebsite = old.selectedWebsite
    /\ new.availableWebsites = old.availableWebsites
    /\ new.integration.themeChoice = old.integration.themeChoice
    /\ new.themeData = old.themeData
    /\ new.integration.customizations # old.integration.customizations

\* the widget of s shows what the customizations k give
Reflects(s, k) ==
    /\ (k.present /\ k.position # None) => s.widget.className = k.position
    /\ (k.present /\ k.title # None) => s.widget.titleText = k.title
    /\ (k.present /\ k.placeholder # None /\ ~s.widget.inputDisabled)
           => s.widget.inputPlaceholder = k.placeholder

\* C27: a change of the backend configuration confined to customizations is
\* eventually reflected in the widget by a later successful poll. A poll is a
\* function of the instance and the response, so a successful poll that
\* leaves the instance as it was is repeated by every later poll on the same
\* response: each successful poll on such a configuration either leaves the
\* widget showing the customizations or changes the instance.
C27_CustomizationsReachTheWidget ==
    [][(/\ PollCompletes
        /\ lastEvent'.resp.kind = "ok"
        /\ CustomizationsOnly(bot.sdkConfig, lastEvent'.resp.data))
       => \/ Reflects(bot', lastEvent'.resp.data.integration.customizations)
          \/ bot' # bot]_vars

\* C28: the comparison and the apply of a poll run as one step: the
\* baseline changes only when the load or an applying poll completes, and a
\* poll that applies replaces the baseline B of that moment by the
\* configuration C of its response, for which the diff rule holds on (B, C),
\* in whatever order the responses of overlapping polls arrive.
C28_ApplyReplacesDifferingBaseline ==
    [][/\ bot'.sdkConfig # bot.sdkConfig => (LoadCompletes \/ PollApplies)
       /\ (PollCompletes /\ lastEvent'.changed /\ bot.sdkConfig # NoConfig)
              => /\ lastEvent'.resp.kind = "ok"
                 /\ bot'.sdkConfig = lastEvent'.resp.data
                 /\ DiffRule(bot.sdkConfig, bot'.sdkConfig)]_vars

\* a poll replaced an existing baseline while a poll issued before it is
\* still in flight
C28_Witness ==
    /\ lastEvent.op = "poll"
    /\ lastEvent.changed
    /\ lastEvent.over # 0
    /\ bot.sdkConfig = lastEvent.resp.data
    /\ \E id \in inflight : id < lastEvent.id

\* C29: the reply to a question asked about a content id that is no longer
\* the current one (the content changed and the chat was cleared while the
\* request was in flight) is not appended to the chat history.
C29_LateReplyDropped ==
    [][\A q \in chatInflight \ chatInflight' :
           (bot.currentFileId # None /\ q.fileId # bot.currentFileId)
               => bot'.chatHistory #
                      Append(bot.chatHistory, [text |-> q.fileId, sender |-> "bot"])]_vars

\* C30: a poll that applies a configuration (one with an integration member
\* and a list of available websites) empties the chat history whenever the
\* configuration has content, a theme-only change on the same content id
\* included, and leaves the chat history as it was when it has none.
C30_HistoryResetOnContent ==
    [][(PollApplies /\ WellFormed(lastEvent'.resp.data))
       => bot'.chatHistory =
              (IF HasContent(lastEvent'.resp.data) THEN <<>> ELSE bot.chatHistory)]_vars

\* the chat was emptied by an applied poll while the reply to a question about
\* the content id that is still current is in flight
C30_Witness ==
    /\ lastEvent.op = "poll"
    /\ lastEvent.changed
    /\ lastEvent.resp.data.integration.present
    /\ lastEvent.resp.data.integration.themeChoice = "website"
    /\ bot.chatHistory = <<>>
    /\ \E q \in chatInflight : q.fileId = bot.currentFileId

====
